---- MODULE Spec2Model ----
(***************************************************************************)
(* A model of AirQualityBot.py: the script loads a threshold table from a  *)
(* CSV file, fetches one air-pollution observation, classifies every       *)
(* tracked pollutant against the table, reduces the per-pollutant results  *)
(* to a message, seeds a chat history and then runs a conversation loop.   *)
(*                                                                         *)
(* Python dicts are modelled as sequences of [key, val] records, because   *)
(* their insertion order is observable.  A raised exception is modelled as *)
(* pc = "crashed" with the exception in the variable error: nothing in the *)
(* script catches the exceptions modelled here, so the script ends there.  *)
(***************************************************************************)
EXTENDS Integers, Sequences, FiniteSets, TLC

VARIABLES
    pc,                                     \* position in the script
    csv_exists,                             \* os.path.exists(csv_file_path)
    csv_rows,                               \* the rows of the CSV file
    combined_levels_and_rec_df,             \* module-level name, line 21
    current_air_pollution_data,             \* module-level name, line 49
    pollution_levels_and_recommendations,   \* module-level name, line 112
    message,                                \* result of generate_message, line 143
    repeat_message,                         \* result of a repeated call of generate_message
    start_message,                          \* line 186
    history,                                \* history.messages, line 184
    error,                                  \* the uncaught exception, if any
    api_pollutant,                          \* input of one classification
    value,                                  \* input of one classification
    level_and_rec_row                       \* result of one classification

vars == <<pc, csv_exists, csv_rows, combined_levels_and_rec_df,
          current_air_pollution_data, pollution_levels_and_recommendations,
          message, repeat_message, start_message, history, error,
          api_pollutant, value, level_and_rec_row>>

\* ---------------------------------------------------------------- bounds
MaxRows == 2        \* rows of the threshold table
MaxValue == 2       \* largest concentration an observation carries
MaxBound == 2       \* largest band bound of a freely drawn table
MaxEntries == 3     \* pollutants in a freely drawn result set
MaxIndex == 2       \* largest severity index of a freely drawn result set
MaxTurns == 2       \* user turns of the conversation loop

\* ------------------------------------------------------- python values
Unbound == [py |-> "unbound"]          \* a name that was never assigned
Bound(v) == [py |-> "bound", v |-> v]   \* a name and the value it is bound to
None == [py |-> "None"]
NaN == "nan"                \* the float read_csv yields for an empty cell
NoError == [type |-> "none", args |-> <<>>]

Exception(t, a) == [type |-> t, args |-> a]
Raised(e) == [raised |-> TRUE, error |-> e]
Returned(v) == [raised |-> FALSE, val |-> v]

\* as str_lower, comparing the input as typed
str_lower_identity(s) == s

\* str.lower() on the strings that occur
str_lower(s) ==
    CASE s = "Good" -> "good"
      [] s = "Fair" -> "fair"
      [] s = "Moderate" -> "moderate"
      [] s = "QUIT" -> "quit"
      [] s = "Quit" -> "quit"
      [] s = "Hello" -> "hello"
      [] OTHER -> s

\* dict helpers: a dict is a sequence of [key, val] with distinct keys
dict_has(d, k) == \E i \in 1..Len(d) : d[i].key = k
dict_get(d, k) == d[CHOOSE i \in 1..Len(d) : d[i].key = k].val
dict_keys(d) == [i \in 1..Len(d) |-> d[i].key]
dict_set(d, k, v) ==
    IF dict_has(d, k)
    THEN [i \in 1..Len(d) |-> IF d[i].key = k THEN [key |-> k, val |-> v] ELSE d[i]]
    ELSE Append(d, [key |-> k, val |-> v])

\* lines 69-77
pollutant_column_map ==
    << [key |-> "co",    val |-> "CO"],
       [key |-> "no2",   val |-> "NO2"],
       [key |-> "o3",    val |-> "O3"],
       [key |-> "so2",   val |-> "SO2"],
       [key |-> "pm2_5", val |-> "PM2.5"],
       [key |-> "pm10",  val |-> "PM10"] >>

ApiPollutants == {pollutant_column_map[i].key : i \in 1..Len(pollutant_column_map)}
DfPollutants == {pollutant_column_map[i].val : i \in 1..Len(pollutant_column_map)}

\* ------------------------------------------------ the threshold table
\* One row of the CSV: 'Qualitative Name', 'Index' and, per pollutant X,
\* the columns 'X Lower', 'X Upper' and 'X Recommendations'.
QualitativeNames == <<"Good", "Fair", "Moderate", "Poor", "Very Poor">>
Advice == <<"Enjoy outdoor activities", "Ventilate regularly",
            "Reduce outdoor exertion", "Wear a mask", "Stay indoors">>

\* A well-formed file: row i covers [i-1, i-1+w] for every pollutant, so that
\* w = 1 gives adjacent bands sharing a bound and w = 0 disjoint bands.
\* The CO column has empty recommendation cells, PM10 repeats one advice.
CsvRow(i, w) ==
    [name  |-> QualitativeNames[i],
     index |-> i,
     lower |-> [p \in DfPollutants |-> i - 1],
     upper |-> [p \in DfPollutants |-> i - 1 + w],
     rec   |-> [p \in DfPollutants |->
                  IF p = "CO" THEN NaN
                  ELSE IF p = "PM10" THEN "Limit time outdoors"
                  ELSE Advice[i]]]

CsvFiles == {[i \in 1..n |-> CsvRow(i, w)] : n \in 1..MaxRows, w \in {0, 1}}

\* Any file of at most MaxRows rows whose bands lie in 0..MaxBound: gaps,
\* overlaps and repeated bands included.
FreeRow(i, l, u) ==
    [name  |-> QualitativeNames[i],
     index |-> i,
     lower |-> [p \in DfPollutants |-> l],
     upper |-> [p \in DfPollutants |-> u],
     rec   |-> [p \in DfPollutants |-> Advice[i]]]

Bands == {b \in (0..MaxBound) \X (0..MaxBound) : b[1] <= b[2]}

FreeCsvFiles ==
    UNION {{[i \in 1..n |-> FreeRow(i, bs[i][1], bs[i][2])] : bs \in [1..n -> Bands]}
           : n \in 0..MaxRows}

\* pd.read_csv, line 21
read_csv(rows) == rows

\* ---------------------------------------------------- classification
\* as level_and_rec_row_of, falling back to the last row when none matches
level_and_rec_row_of_clamped(combined_df, df_pollutant, v) ==
    LET InBand(row) == row.lower[df_pollutant] <= v /\ row.upper[df_pollutant] >= v
        matching == SelectSeq(combined_df, InBand)
    IN  IF Len(matching) = 0
        THEN IF Len(combined_df) = 0
             THEN Raised(Exception("IndexError", <<"single positional indexer is out-of-bounds">>))
             ELSE Returned(combined_df[Len(combined_df)])
        ELSE Returned(matching[1])

\* as level_and_rec_row_of, with .iloc[-1] in place of .iloc[0]
level_and_rec_row_of_last(combined_df, df_pollutant, v) ==
    LET InBand(row) == row.lower[df_pollutant] <= v /\ row.upper[df_pollutant] >= v
        matching == SelectSeq(combined_df, InBand)
    IN  IF Len(matching) = 0
        THEN Raised(Exception("IndexError", <<"single positional indexer is out-of-bounds">>))
        ELSE Returned(matching[Len(matching)])

\* lines 94-97: boolean-mask row filter, then .iloc[0]
level_and_rec_row_of(combined_df, df_pollutant, v) ==
    LET InBand(row) == row.lower[df_pollutant] <= v /\ row.upper[df_pollutant] >= v
        matching == SelectSeq(combined_df, InBand)
    IN  IF Len(matching) = 0
        THEN Raised(Exception("IndexError", <<"single positional indexer is out-of-bounds">>))
        ELSE Returned(matching[1])

\* lines 100-104
pollutant_entry(row, df_pollutant) ==
    [name |-> row.name, index |-> row.index, rec |-> row.rec[df_pollutant]]

\* as classify_pollutants, skipping a pollutant the observation lacks
RECURSIVE classify_pollutants_skipping(_, _, _, _)
classify_pollutants_skipping(components, combined_df, pollutant_info, i) ==
    IF i > Len(pollutant_column_map) THEN Returned(pollutant_info)
    ELSE LET api_p == pollutant_column_map[i].key
             df_p  == pollutant_column_map[i].val
         IN  IF ~dict_has(components, api_p)
             THEN classify_pollutants_skipping(components, combined_df, pollutant_info, i + 1)
             ELSE LET r == level_and_rec_row_of(combined_df, df_p, dict_get(components, api_p))
                  IN  IF r.raised THEN r
                      ELSE classify_pollutants_skipping(components, combined_df,
                               dict_set(pollutant_info, api_p, pollutant_entry(r.val, df_p)),
                               i + 1)

\* as classify_pollutants, iterating the map in sorted key order
sorted_pollutant_column_map ==
    << [key |-> "co",    val |-> "CO"],
       [key |-> "no2",   val |-> "NO2"],
       [key |-> "o3",    val |-> "O3"],
       [key |-> "pm10",  val |-> "PM10"],
       [key |-> "pm2_5", val |-> "PM2.5"],
       [key |-> "so2",   val |-> "SO2"] >>

RECURSIVE classify_pollutants_sorted(_, _, _, _)
classify_pollutants_sorted(components, combined_df, pollutant_info, i) ==
    IF i > Len(sorted_pollutant_column_map) THEN Returned(pollutant_info)
    ELSE LET api_p == sorted_pollutant_column_map[i].key
             df_p  == sorted_pollutant_column_map[i].val
         IN  IF ~dict_has(components, api_p)
             THEN Raised(Exception("KeyError", <<api_p>>))
             ELSE LET r == level_and_rec_row_of(combined_df, df_p, dict_get(components, api_p))
                  IN  IF r.raised THEN r
                      ELSE classify_pollutants_sorted(components, combined_df,
                               dict_set(pollutant_info, api_p, pollutant_entry(r.val, df_p)),
                               i + 1)

\* lines 89-104: the loop over pollutant_column_map from position i on
RECURSIVE classify_pollutants(_, _, _, _)
classify_pollutants(components, combined_df, pollutant_info, i) ==
    IF i > Len(pollutant_column_map) THEN Returned(pollutant_info)
    ELSE LET api_p == pollutant_column_map[i].key
             df_p  == pollutant_column_map[i].val
         IN  IF ~dict_has(components, api_p)
             THEN Raised(Exception("KeyError", <<api_p>>))
             ELSE LET r == level_and_rec_row_of(combined_df, df_p, dict_get(components, api_p))
                  IN  IF r.raised THEN r
                      ELSE classify_pollutants(components, combined_df,
                               dict_set(pollutant_info, api_p, pollutant_entry(r.val, df_p)),
                               i + 1)

\* lines 80-107: the loop over the data points from position k on
RECURSIVE classify_data_points(_, _, _, _)
classify_data_points(air_quality_data_list, combined_df, results, k) ==
    IF k > Len(air_quality_data_list) THEN Returned(results)
    ELSE LET data_point == air_quality_data_list[k]
             r == classify_pollutants(data_point.components, combined_df,
                      <<[key |-> "Timestamp", val |-> data_point.dt]>>, 1)
         IN  IF r.raised THEN r
             ELSE classify_data_points(air_quality_data_list, combined_df,
                      Append(results, r.val), k + 1)

\* lines 51-109
get_pollutant_levels_and_recommendations(api_response, combined_df) ==
    IF api_response = None
    THEN Raised(Exception("TypeError", <<"'NoneType' object is not subscriptable">>))
    ELSE classify_data_points(api_response.list, combined_df, <<>>, 1)

\* --------------------------------------------------- the observation
Values == (-1)..MaxValue
Absent == MaxValue + 1      \* marks a key the provider left out
Timestamps == {1700000000}

\* the dict of the readings f gives, in provider order, without the absent ones
RECURSIVE components_from(_, _)
components_from(f, i) ==
    IF i > Len(pollutant_column_map) THEN <<>>
    ELSE LET k == pollutant_column_map[i].key
         IN  IF f[k] = Absent THEN components_from(f, i + 1)
             ELSE <<[key |-> k, val |-> f[k]]>> \o components_from(f, i + 1)

DataPoints ==
    {[components |-> components_from(f, 1), dt |-> t] :
        f \in [ApiPollutants -> Values \cup {Absent}], t \in Timestamps}

\* a response that passes the check of line 40
ApiResponses ==
    {[coord |-> "coord", list |-> l] : l \in {<<>>} \cup {<<d>> : d \in DataPoints}}

\* ------------------------------------------------------ the summary
\* line 118; the formatted local time is kept symbolic
strftime(timestamp) == [format |-> "%H:%M %p on %d %B %Y", fromtimestamp |-> timestamp]

\* as scan_levels, with >= in place of > at line 127
RECURSIVE scan_levels_last_wins(_, _, _)
scan_levels_last_wins(items, acc, i) ==
    IF i > Len(items) THEN acc
    ELSE LET pollutant == items[i].key
             data == items[i].val
         IN  IF pollutant = "Timestamp" THEN scan_levels_last_wins(items, acc, i + 1)
             ELSE LET levels == dict_set(acc.pollutant_levels, pollutant, data.index)
                  IN  IF data.index >= acc.max_index
                      THEN scan_levels_last_wins(items,
                               [max_index |-> data.index,
                                max_qualitative_name |-> <<data.name>>,
                                pollutant_levels |-> levels], i + 1)
                      ELSE scan_levels_last_wins(items,
                               [acc EXCEPT !.pollutant_levels = levels], i + 1)

\* lines 121-129: the loop over the items of the first result from position i on
RECURSIVE scan_levels(_, _, _)
scan_levels(items, acc, i) ==
    IF i > Len(items) THEN acc
    ELSE LET pollutant == items[i].key
             data == items[i].val
         IN  IF pollutant = "Timestamp" THEN scan_levels(items, acc, i + 1)
             ELSE LET levels == dict_set(acc.pollutant_levels, pollutant, data.index)
                  IN  IF data.index > acc.max_index
                      THEN scan_levels(items,
                               [max_index |-> data.index,
                                max_qualitative_name |-> <<data.name>>,
                                pollutant_levels |-> levels], i + 1)
                      ELSE scan_levels(items, [acc EXCEPT !.pollutant_levels = levels], i + 1)

\* as recommendations_list_of, without the NaN test of line 132
RECURSIVE recommendations_list_of_unfiltered(_, _)
recommendations_list_of_unfiltered(items, i) ==
    IF i > Len(items) THEN <<>>
    ELSE IF items[i].key # "Timestamp"
         THEN <<"- " \o items[i].val.rec>> \o recommendations_list_of_unfiltered(items, i + 1)
         ELSE recommendations_list_of_unfiltered(items, i + 1)

\* line 132: the list comprehension from position i on
RECURSIVE recommendations_list_of(_, _)
recommendations_list_of(items, i) ==
    IF i > Len(items) THEN <<>>
    ELSE IF items[i].key # "Timestamp" /\ items[i].val.rec # NaN
         THEN <<"- " \o items[i].val.rec>> \o recommendations_list_of(items, i + 1)
         ELSE recommendations_list_of(items, i + 1)

\* '\n'.join, line 136
RECURSIVE join(_)
join(l) ==
    IF Len(l) = 0 THEN ""
    ELSE IF Len(l) = 1 THEN l[1]
    ELSE l[1] \o "\n" \o join(Tail(l))

\* as generate_message, with max_qualitative_name bound to '' before the loop
generate_message_defaulting(results) ==
    IF Len(results) = 0
    THEN Raised(Exception("IndexError", <<"list index out of range">>))
    ELSE IF ~dict_has(results[1], "Timestamp")
    THEN Raised(Exception("KeyError", <<"Timestamp">>))
    ELSE LET acc == scan_levels(results[1],
                        [max_index |-> -1, max_qualitative_name |-> <<"">>,
                         pollutant_levels |-> <<>>], 1)
             recommendations_list == recommendations_list_of(results[1], 1)
         IN  Returned(
                [greetings |-> [time_str |-> strftime(dict_get(results[1], "Timestamp")),
                                condition |-> str_lower(acc.max_qualitative_name[1])],
                 recommendations |-> join(recommendations_list),
                 pollutant_levels |-> acc.pollutant_levels,
                 max_index |-> acc.max_index,
                 max_qualitative_name |-> acc.max_qualitative_name[1],
                 recommendations_list |-> recommendations_list])

\* lines 114-139; an unbound max_qualitative_name is the empty tuple
generate_message(results) ==
    IF Len(results) = 0
    THEN Raised(Exception("IndexError", <<"list index out of range">>))
    ELSE IF ~dict_has(results[1], "Timestamp")
    THEN Raised(Exception("KeyError", <<"Timestamp">>))
    ELSE LET acc == scan_levels(results[1],
                        [max_index |-> -1, max_qualitative_name |-> <<>>,
                         pollutant_levels |-> <<>>], 1)
             recommendations_list == recommendations_list_of(results[1], 1)
         IN  IF acc.max_qualitative_name = <<>>
             THEN Raised(Exception("UnboundLocalError", <<"max_qualitative_name">>))
             ELSE Returned(
                    [greetings |-> [time_str |-> strftime(dict_get(results[1], "Timestamp")),
                                    condition |-> str_lower(acc.max_qualitative_name[1])],
                     recommendations |-> join(recommendations_list),
                     pollutant_levels |-> acc.pollutant_levels,
                     max_index |-> acc.max_index,
                     max_qualitative_name |-> acc.max_qualitative_name[1],
                     recommendations_list |-> recommendations_list])

\* ------------------------------------------------------- the script
Crash(e) ==
    /\ pc' = "crashed"
    /\ error' = e

\* lines 18-24
LoadThresholdTable ==
    /\ pc = "load"
    /\ combined_levels_and_rec_df' =
          IF csv_exists THEN Bound(read_csv(csv_rows)) ELSE combined_levels_and_rec_df
    /\ pc' = "fetch"
    /\ UNCHANGED <<csv_exists, csv_rows, current_air_pollution_data,
                   pollution_levels_and_recommendations, message, repeat_message,
                   start_message, history, error, api_pollutant, value, level_and_rec_row>>

\* lines 31-49: the provider answers with a usable payload, or the call
\* returns None (request failed, or payload without 'coord'/'list')
get_current_air_pollution_data ==
    /\ pc = "fetch"
    /\ \E data \in ApiResponses \cup {None} :
          current_air_pollution_data' = Bound(data)
    /\ pc' = "classify"
    /\ UNCHANGED <<csv_exists, csv_rows, combined_levels_and_rec_df,
                   pollution_levels_and_recommendations, message, repeat_message,
                   start_message, history, error, api_pollutant, value, level_and_rec_row>>

\* line 112
ClassifyObservation ==
    /\ pc = "classify"
    /\ IF combined_levels_and_rec_df = Unbound
       THEN /\ Crash(Exception("NameError", <<"combined_levels_and_rec_df">>))
            /\ UNCHANGED pollution_levels_and_recommendations
       ELSE LET r == get_pollutant_levels_and_recommendations(
                         current_air_pollution_data.v, combined_levels_and_rec_df.v)
            IN  IF r.raised
                THEN /\ Crash(r.error)
                     /\ UNCHANGED pollution_levels_and_recommendations
                ELSE /\ pollution_levels_and_recommendations' = Bound(r.val)
                     /\ pc' = "summarize"
                     /\ UNCHANGED error
    /\ UNCHANGED <<csv_exists, csv_rows, combined_levels_and_rec_df,
                   current_air_pollution_data, message, repeat_message,
                   start_message, history, api_pollutant, value, level_and_rec_row>>

\* as SummarizeResults, with the call popping 'Timestamp' off the result it is given
SummarizeResults_popping ==
    /\ pc = "summarize"
    /\ LET r == generate_message(pollution_levels_and_recommendations.v)
       IN  IF r.raised
           THEN /\ Crash(r.error)
                /\ UNCHANGED <<message, pollution_levels_and_recommendations>>
           ELSE /\ message' = Bound(r.val)
                /\ pollution_levels_and_recommendations' =
                      Bound(<<Tail(pollution_levels_and_recommendations.v[1])>>
                            \o Tail(pollution_levels_and_recommendations.v))
                /\ pc' = "greet"
                /\ UNCHANGED error
    /\ UNCHANGED <<csv_exists, csv_rows, combined_levels_and_rec_df,
                   current_air_pollution_data, repeat_message, start_message, history,
                   api_pollutant, value, level_and_rec_row>>

\* line 143
SummarizeResults ==
    /\ pc = "summarize"
    /\ LET r == generate_message(pollution_levels_and_recommendations.v)
       IN  IF r.raised
           THEN /\ Crash(r.error)
                /\ UNCHANGED message
           ELSE /\ message' = Bound(r.val)
                /\ pc' = "greet"
                /\ UNCHANGED error
    /\ UNCHANGED <<csv_exists, csv_rows, combined_levels_and_rec_df,
                   current_air_pollution_data, pollution_levels_and_recommendations,
                   repeat_message, start_message, history, api_pollutant, value,
                   level_and_rec_row>>

\* ------------------------------------------------ the conversation
role == "Purpose: The AirQuality bot serves as an informational assistant"   \* lines 188-222
ChatGreetings == {"Good evening!"}                 \* what chat_greetings_chain.run may return
ChatRecommendations == {"Based on air pollution recommendations are: none"}
AiContents == {"The air is fine."}                 \* what the chat model may answer
UserInputs == {"quit", "QUIT", "Quit", "Hello", "quit now"}

AIMessage(content) == [type |-> "ai", content |-> content]
HumanMessage(content) == [type |-> "human", content |-> content]

\* str() of the message the chat model returns, line 243
message_str(content) == "content='" \o content \o "'"

UserTurns(messages) == Len(SelectSeq(messages, LAMBDA m : m.type = "human"))

\* lines 149-227
StartConversation ==
    /\ pc = "greet"
    /\ \E chat_greetings \in ChatGreetings, chat_recommendations \in ChatRecommendations :
          /\ start_message' = Bound(chat_greetings \o " " \o chat_recommendations)
          /\ history' = Bound(<<AIMessage(role),
                                AIMessage(chat_greetings \o " " \o chat_recommendations)>>)
    /\ pc' = "prompt"
    /\ UNCHANGED <<csv_exists, csv_rows, combined_levels_and_rec_df,
                   current_air_pollution_data, pollution_levels_and_recommendations,
                   message, repeat_message, error, api_pollutant, value, level_and_rec_row>>

\* lines 233-237: the input is 'quit' in any letter case
Quit ==
    /\ pc = "prompt"
    /\ \E user_input \in UserInputs : str_lower(user_input) = "quit"
    /\ pc' = "done"
    /\ UNCHANGED <<csv_exists, csv_rows, combined_levels_and_rec_df,
                   current_air_pollution_data, pollution_levels_and_recommendations,
                   message, repeat_message, start_message, history, error,
                   api_pollutant, value, level_and_rec_row>>

\* lines 233-249: any other input
Converse ==
    /\ pc = "prompt"
    /\ UserTurns(history.v) < MaxTurns
    /\ \E user_input \in UserInputs, content \in AiContents :
          /\ str_lower(user_input) # "quit"
          /\ LET with_user == Append(history.v, HumanMessage(user_input))
                 ai_response == message_str(content)
             IN  history' = Bound(Append(with_user, AIMessage(ai_response)))
    /\ pc' = "prompt"
    /\ UNCHANGED <<csv_exists, csv_rows, combined_levels_and_rec_df,
                   current_air_pollution_data, pollution_levels_and_recommendations,
                   message, repeat_message, start_message, error,
                   api_pollutant, value, level_and_rec_row>>

\* ------------------------------------------------ the whole script
Init ==
    /\ pc = "load"
    /\ csv_exists \in BOOLEAN
    /\ csv_rows \in (IF csv_exists THEN CsvFiles ELSE {<<>>})
    /\ combined_levels_and_rec_df = Unbound
    /\ current_air_pollution_data = Unbound
    /\ pollution_levels_and_recommendations = Unbound
    /\ message = Unbound
    /\ repeat_message = Unbound
    /\ start_message = Unbound
    /\ history = Unbound
    /\ error = NoError
    /\ api_pollutant = "co"
    /\ value = 0
    /\ level_and_rec_row = Unbound

Next ==
    \/ LoadThresholdTable
    \/ get_current_air_pollution_data
    \/ ClassifyObservation
    \/ SummarizeResults
    \/ StartConversation
    \/ Quit
    \/ Converse

Spec == Init /\ [][Next]_vars

\* ------------------------------------- one classification on its own
\* lines 89-97 for one pollutant of the map and one reading
ClassifyOne ==
    /\ pc = "classify_one"
    /\ level_and_rec_row' =
          level_and_rec_row_of(combined_levels_and_rec_df.v,
                               dict_get(pollutant_column_map, api_pollutant), value)
    /\ pc' = "classified"
    /\ UNCHANGED <<csv_exists, csv_rows, combined_levels_and_rec_df,
                   current_air_pollution_data, pollution_levels_and_recommendations,
                   message, repeat_message, start_message, history, error,
                   api_pollutant, value>>

InitClassify ==
    /\ pc = "classify_one"
    /\ csv_exists = TRUE
    /\ csv_rows \in FreeCsvFiles
    /\ combined_levels_and_rec_df = Bound(read_csv(csv_rows))
    /\ current_air_pollution_data = Unbound
    /\ pollution_levels_and_recommendations = Unbound
    /\ message = Unbound
    /\ repeat_message = Unbound
    /\ start_message = Unbound
    /\ history = Unbound
    /\ error = NoError
    /\ api_pollutant \in ApiPollutants
    /\ value \in (-1)..(MaxBound + 1)
    /\ level_and_rec_row = Unbound

SpecClassify == InitClassify /\ [][ClassifyOne]_vars

\* ---------------------------------------- the summarizer on its own
EntryNames == {"Good", "Fair"}
EntryRecommendations == {NaN, "Ventilate regularly", "Stay indoors"}
Entries == [name : EntryNames, index : 1..MaxIndex, rec : EntryRecommendations]

\* a result of n pollutants, the first n of the map, with any entries
FreeResults ==
    UNION {{<<[key |-> "Timestamp", val |-> t]>> \o
              [i \in 1..n |-> [key |-> pollutant_column_map[i].key, val |-> es[i]]]
              : es \in [1..n -> Entries], t \in Timestamps}
           : n \in 0..MaxEntries}

InitSummarize ==
    /\ pc = "summarize"
    /\ csv_exists = TRUE
    /\ csv_rows = <<>>
    /\ combined_levels_and_rec_df = Unbound
    /\ current_air_pollution_data = Unbound
    /\ pollution_levels_and_recommendations \in {Bound(<<r>>) : r \in FreeResults}
    /\ message = Unbound
    /\ repeat_message = Unbound
    /\ start_message = Unbound
    /\ history = Unbound
    /\ error = NoError
    /\ api_pollutant = "co"
    /\ value = 0
    /\ level_and_rec_row = Unbound

SpecSummarize == InitSummarize /\ [][SummarizeResults]_vars

\* ------------------------- aggregation and summarization as a library
\* a host calling generate_message once more on the same results
SummarizeAgain ==
    /\ pc = "greet"
    /\ repeat_message = Unbound
    /\ LET r == generate_message(pollution_levels_and_recommendations.v)
       IN  IF r.raised
           THEN /\ Crash(r.error)
                /\ UNCHANGED repeat_message
           ELSE /\ repeat_message' = Bound(r.val)
                /\ pc' = "summarized"
                /\ UNCHANGED error
    /\ UNCHANGED <<csv_exists, csv_rows, combined_levels_and_rec_df,
                   current_air_pollution_data, pollution_levels_and_recommendations,
                   message, start_message, history, api_pollutant, value,
                   level_and_rec_row>>

InitPipeline ==
    /\ pc = "classify"
    /\ csv_exists = TRUE
    /\ csv_rows \in CsvFiles
    /\ combined_levels_and_rec_df = Bound(read_csv(csv_rows))
    /\ current_air_pollution_data \in {Bound(d) : d \in ApiResponses}
    /\ pollution_levels_and_recommendations = Unbound
    /\ message = Unbound
    /\ repeat_message = Unbound
    /\ start_message = Unbound
    /\ history = Unbound
    /\ error = NoError
    /\ api_pollutant = "co"
    /\ value = 0
    /\ level_and_rec_row = Unbound

NextPipeline ==
    \/ ClassifyObservation
    \/ SummarizeResults
    \/ SummarizeAgain

SpecPipeline == InitPipeline /\ [][NextPipeline]_vars

\* ===================================================== properties
\* ----- one classification (SpecClassify)
ClassifiedColumn == pollutant_column_map[CHOOSE i \in 1..Len(pollutant_column_map) :
                                            pollutant_column_map[i].key = api_pollutant].val
TableRows == combined_levels_and_rec_df.v
RowCovers(j, column, v) ==
    TableRows[j].lower[column] <= v /\ v <= TableRows[j].upper[column]
FirstCovering(column, v) ==
    CHOOSE j \in 1..Len(TableRows) :
        /\ RowCovers(j, column, v)
        /\ \A k \in 1..(j - 1) : ~RowCovers(k, column, v)

\* C1: a reading that some band of its pollutant covers is classified to the
\* first band in table order whose closed interval contains it, so a reading
\* on the bound two adjacent bands share goes to the earlier band, and the
\* band returned always contains the reading.
C1_FirstCoveringBand ==
    (pc = "classified" /\ \E j \in 1..Len(TableRows) : RowCovers(j, ClassifiedColumn, value))
    => /\ ~level_and_rec_row.raised
       /\ level_and_rec_row.val = TableRows[FirstCovering(ClassifiedColumn, value)]
       /\ level_and_rec_row.val.lower[ClassifiedColumn] <= value
       /\ value <= level_and_rec_row.val.upper[ClassifiedColumn]

\* a reading on the bound shared by two adjacent bands went to the earlier one
C1_Witness ==
    /\ pc = "classified"
    /\ \E j \in 1..(Len(TableRows) - 1) :
          /\ TableRows[j].lower[ClassifiedColumn] < value
          /\ TableRows[j].upper[ClassifiedColumn] = value
          /\ TableRows[j + 1].lower[ClassifiedColumn] = value
          /\ TableRows[j + 1].upper[ClassifiedColumn] > value
          /\ ~level_and_rec_row.raised
          /\ level_and_rec_row.val = TableRows[j]

\* ----- the summarizer (SpecSummarize)
SummarizedItems ==
    SelectSeq(pollution_levels_and_recommendations.v[1], LAMBDA it : it.key # "Timestamp")
HighestIndex ==
    CHOOSE m \in {SummarizedItems[i].val.index : i \in 1..Len(SummarizedItems)} :
        \A i \in 1..Len(SummarizedItems) : SummarizedItems[i].val.index <= m
FirstAtHighest ==
    CHOOSE i \in 1..Len(SummarizedItems) :
        /\ SummarizedItems[i].val.index = HighestIndex
        /\ \A k \in 1..(i - 1) : SummarizedItems[k].val.index # HighestIndex
LowerCased(name) == IF name = "Good" THEN "good" ELSE "fair"

\* C2: the overall index is the maximum index over the pollutant results and
\* the overall name is that of the first pollutant, in result order, with
\* that index; a later pollutant with the same index does not replace it.
C2_FirstMaximumNames ==
    message # Unbound
    => /\ message.v.max_index = HighestIndex
       /\ message.v.max_qualitative_name = SummarizedItems[FirstAtHighest].val.name
       /\ message.v.greetings.condition =
             LowerCased(SummarizedItems[FirstAtHighest].val.name)

\* two pollutants tie for the maximum and carry different names
C2_Witness ==
    /\ message # Unbound
    /\ \E i \in 1..Len(SummarizedItems) :
          /\ i > FirstAtHighest
          /\ SummarizedItems[i].val.index = HighestIndex
          /\ SummarizedItems[i].val.name # SummarizedItems[FirstAtHighest].val.name

NoRepeats(l) == \A i, j \in 1..Len(l) : i # j => l[i] # l[j]
KeptItems == SelectSeq(SummarizedItems, LAMBDA it : it.val.rec # NaN)

\* C3 as stated: the recommendation list never holds the same string twice
\* and never holds a NaN placeholder.
C3_NoDuplicateRecommendations ==
    message # Unbound
    => /\ NoRepeats(message.v.recommendations_list)
       /\ \A i \in 1..Len(message.v.recommendations_list) :
             message.v.recommendations_list[i] # "- " \o NaN

\* C3 amended: the recommendation list is the recommendation texts in result
\* order, each prefixed "- ", with the NaN entries dropped and every repeated
\* text kept; it never holds a NaN placeholder.
C3_RecommendationsInOrder ==
    message # Unbound
    => /\ message.v.recommendations_list =
             [i \in 1..Len(KeptItems) |-> "- " \o KeptItems[i].val.rec]
       /\ \A i \in 1..Len(message.v.recommendations_list) :
             message.v.recommendations_list[i] # "- " \o NaN
       /\ message.v.recommendations = join(message.v.recommendations_list)

\* a NaN entry was dropped and a repeated text appears twice
C3_Witness ==
    /\ message # Unbound
    /\ Len(KeptItems) < Len(SummarizedItems)
    /\ ~NoRepeats(message.v.recommendations_list)

\* C6 as stated: summarizing zero pollutants fails with EmptyResultSetError
\* and produces no summary.
C6_EmptyResultSetError ==
    (pc # "summarize" /\ Len(SummarizedItems) = 0)
    => /\ pc = "crashed"
       /\ error.type = "EmptyResultSetError"
       /\ message = Unbound

\* C6 amended: summarizing zero pollutants fails with the UnboundLocalError of
\* reading max_qualitative_name, which no iteration bound, and produces no
\* summary.
C6_EmptyResultSetFails ==
    (pc # "summarize" /\ Len(SummarizedItems) = 0)
    => /\ pc = "crashed"
       /\ error = Exception("UnboundLocalError", <<"max_qualitative_name">>)
       /\ message = Unbound

C6_Witness ==
    /\ pc = "crashed"
    /\ Len(SummarizedItems) = 0
    /\ message = Unbound

\* ----- the script (Spec)
ObservationClassified ==
    /\ pc \notin {"load", "fetch", "classify", "classify_one", "classified"}
    /\ combined_levels_and_rec_df # Unbound
    /\ current_air_pollution_data # Unbound
    /\ current_air_pollution_data.v # None
    /\ Len(current_air_pollution_data.v.list) > 0
Readings == current_air_pollution_data.v.list[1].components
Tracked == 1..Len(pollutant_column_map)
KeyOf(i) == pollutant_column_map[i].key
ColumnOf(i) == pollutant_column_map[i].val
IsPresent(i) == \E j \in 1..Len(Readings) : Readings[j].key = KeyOf(i)
ReadingOf(i) == Readings[CHOOSE j \in 1..Len(Readings) : Readings[j].key = KeyOf(i)].val
HasBand(i) == \E j \in 1..Len(TableRows) : RowCovers(j, ColumnOf(i), ReadingOf(i))
IsUnclassified(i) == IsPresent(i) /\ ~HasBand(i)
Fails(i) == ~IsPresent(i) \/ ~HasBand(i)
FirstFailure == CHOOSE i \in Tracked : Fails(i) /\ \A k \in 1..(i - 1) : ~Fails(k)
NothingProduced ==
    /\ pc = "crashed"
    /\ pollution_levels_and_recommendations = Unbound
    /\ message = Unbound

\* C4 as stated: a reading that no band of its pollutant covers fails with an
\* UnclassifiedValueError naming the pollutant and the value, and neither a
\* result set nor a summary is produced.
C4_UnclassifiedValueError ==
    (ObservationClassified /\ \E i \in Tracked : IsUnclassified(i))
    => /\ NothingProduced
       /\ IsPresent(FirstFailure)
          => /\ error.type = "UnclassifiedValueError"
             /\ error.args = <<KeyOf(FirstFailure), ReadingOf(FirstFailure)>>

\* C4 amended: a reading that no band of its pollutant covers makes the
\* classification fail, with the IndexError of .iloc[0] on an empty selection
\* (it names neither the pollutant nor the value) when that reading is the
\* first to fail in mapping order; no band is substituted and neither a
\* result set nor a summary is produced.
C4_UnclassifiedReadingFails ==
    (ObservationClassified /\ \E i \in Tracked : IsUnclassified(i))
    => /\ NothingProduced
       /\ IsPresent(FirstFailure)
          => error = Exception("IndexError", <<"single positional indexer is out-of-bounds">>)

\* a negative reading and one above every band, after pollutants that classified
C4_Witness ==
    /\ ObservationClassified
    /\ pc = "crashed"
    /\ \E i \in Tracked : IsUnclassified(i) /\ ReadingOf(i) < 0
    /\ FirstFailure > 1
    /\ IsPresent(FirstFailure)
    /\ ReadingOf(FirstFailure) > 0

\* C5 as stated: an observation without a tracked pollutant fails with a
\* MissingPollutantError naming the pollutant and the timestamp, and no
\* partial result set is returned or summarized.
C5_MissingPollutantError ==
    (ObservationClassified /\ \E i \in Tracked : ~IsPresent(i))
    => /\ NothingProduced
       /\ ~IsPresent(FirstFailure)
          => /\ error.type = "MissingPollutantError"
             /\ error.args = <<KeyOf(FirstFailure),
                               current_air_pollution_data.v.list[1].dt>>

\* C5 amended: an observation without a tracked pollutant makes the
\* aggregation fail, with a KeyError naming the pollutant (not the timestamp)
\* when the absent pollutant is the first to fail in mapping order; no value
\* is made up and no partial result set is returned or summarized.
C5_MissingPollutantFails ==
    (ObservationClassified /\ \E i \in Tracked : ~IsPresent(i))
    => /\ NothingProduced
       /\ ~IsPresent(FirstFailure)
          => error = Exception("KeyError", <<KeyOf(FirstFailure)>>)

\* pm10 is absent after five pollutants that classified
C5_Witness ==
    /\ ObservationClassified
    /\ pc = "crashed"
    /\ FirstFailure = Len(pollutant_column_map)
    /\ ~IsPresent(FirstFailure)
    /\ error.args = <<"pm10">>

\* C7: when the CSV file is absent the load fails fatally: the script stops
\* there and no later step (the fetch, the classification, the summary, the
\* conversation) runs.
C7_AbsentTableAbortsStartup ==
    (~csv_exists /\ pc # "load")
    => /\ pc = "crashed"
       /\ current_air_pollution_data = Unbound

\* C9: the pollutants are classified in the order of pollutant_column_map,
\* once each; the result keeps that order after its Timestamp, and the
\* index map of the summary has one entry per tracked pollutant, in that
\* order, holding the index of the band the pollutant was classified to.
C9_MappingOrderKept ==
    /\ (ObservationClassified /\ pollution_levels_and_recommendations # Unbound)
       => LET result == pollution_levels_and_recommendations.v[1]
          IN  /\ Len(pollution_levels_and_recommendations.v) = 1
              /\ Len(result) = Len(pollutant_column_map) + 1
              /\ result[1].key = "Timestamp"
              /\ \A i \in Tracked :
                    LET row == TableRows[FirstCovering(ColumnOf(i), ReadingOf(i))]
                    IN  /\ result[i + 1].key = KeyOf(i)
                        /\ result[i + 1].val =
                              [name |-> row.name, index |-> row.index,
                               rec |-> row.rec[ColumnOf(i)]]
    /\ (ObservationClassified /\ message # Unbound)
       => message.v.pollutant_levels =
             [i \in Tracked |->
                 [key |-> KeyOf(i),
                  val |-> TableRows[FirstCovering(ColumnOf(i), ReadingOf(i))].index]]

\* a summary whose index map holds different indexes
C9_Witness ==
    /\ ObservationClassified
    /\ message # Unbound
    /\ message.v.pollutant_levels[1].val > message.v.pollutant_levels[2].val
    /\ message.v.pollutant_levels[Len(pollutant_column_map)].key = "pm10"

\* ----- the conversation loop (Spec)
QuitInputs == {"quit", "QUIT", "Quit"}
AlternatesAfterStart(h) ==
    /\ Len(h) >= 2
    /\ h[1] = AIMessage(role)
    /\ h[2] = AIMessage(start_message.v)
    /\ (Len(h) - 2) % 2 = 0
    /\ \A i \in 3..Len(h) : h[i].type = (IF i % 2 = 1 THEN "human" ELSE "ai")

====
